---- MODULE Spec2Model ----
(***************************************************************************)
(* Model of liskov2.py: the InheritanceGraph (add_class, is_subclass,      *)
(* get_all_pairs), the ClassInfoExtractor that fills it from parsed files  *)
(* (visit_ClassDef, _get_full_attr_name, _get_full_class_name,             *)
(* process_file, process_codebase) and the grouping and planning part of   *)
(* write_class_pairs.                                                      *)
(*                                                                         *)
(* A Python dict is a function together with the insertion order of its    *)
(* keys.  A Python set of str iterates in an order fixed by the process's  *)
(* string hashing: an arbitrary total order on the names (HashOrders).     *)
(* No state of the program depends on that order, only the outcome of a    *)
(* query does, so the order is drawn where a query is answered.            *)
(***************************************************************************)
EXTENDS Naturals, Sequences, FiniteSets

VARIABLES
    inheritance_graph,  \* the InheritanceGraph object: its four dicts
    ret,                \* the last operation called, its arguments and outcome
    calls,              \* history of the add_class calls (when recorded)
    codebase,           \* the files under root_dir: name -> text and parse
    todo,               \* files os.walk has not yet yielded
    declared,           \* history: the class definitions visit_ClassDef met
    phase               \* position of the main program

vars == <<inheritance_graph, ret, calls, codebase, todo, declared, phase>>

(***************************************************************************)
(* Bounds and universes                                                    *)
(***************************************************************************)
\* depth at which the interpreter gives up a recursion (RecursionError)
RecursionLimit == 6
\* longest parent_names list passed to add_class
MaxParents == 2
\* longest recorded history of add_class calls
MaxCalls == 3

Names == {"A", "B", "C"}
\* the names in lexicographic order, the order sorted() puts them in
SortOrder == <<"A", "A.B", "A.B.C", "A.C", "B", "B.C", "C">>

Range(s) == {s[i] : i \in 1..Len(s)}

ParentLists == UNION {[1..k -> Names] : k \in 0..MaxParents}

HashOrders ==
    {s \in [1..Cardinality(Names) -> Names] : \A n \in Names : \E i \in DOMAIN s : s[i] = n}

\* names that are no class name of the universe iterate after those that are
OtherNames == <<"A.B", "A.B.C", "A.C", "B.C">>

(***************************************************************************)
(* InheritanceGraph                                                        *)
(***************************************************************************)
EmptyDict == [k \in {} |-> {}]

\* InheritanceGraph.__init__
NewGraph ==
    [direct_parents  |-> EmptyDict,
     class_source    |-> EmptyDict,
     class_modules   |-> EmptyDict,
     module_contents |-> EmptyDict,
     keys            |-> <<>>]

\* d[k] = v on a dict
DictSet(d, k, v) == [x \in (DOMAIN d) \cup {k} |-> IF x = k THEN v ELSE d[x]]

\* a dict that would list a key once more each time it is assigned
KeysAppendAlways(keys, k) == Append(keys, k)

\* position of a key in a dict: a key that is assigned again keeps its place
KeysAfterSet(keys, k) == IF k \in Range(keys) THEN keys ELSE Append(keys, k)

\* set(parent_names)
ToSet(parent_names) == Range(parent_names)

\* a registration that would keep the parents of a name that is already there
add_class_keep_first(g, class_name, parent_names, source_code, module_path, module_content) ==
    [direct_parents  |-> IF class_name \in DOMAIN g.direct_parents
                         THEN g.direct_parents
                         ELSE DictSet(g.direct_parents, class_name, ToSet(parent_names)),
     class_source    |-> DictSet(g.class_source, class_name, source_code),
     class_modules   |-> DictSet(g.class_modules, class_name, module_path),
     module_contents |-> DictSet(g.module_contents, module_path, module_content),
     keys            |-> KeysAfterSet(g.keys, class_name)]

add_class(g, class_name, parent_names, source_code, module_path, module_content) ==
    [direct_parents  |-> DictSet(g.direct_parents, class_name, ToSet(parent_names)),
     class_source    |-> DictSet(g.class_source, class_name, source_code),
     class_modules   |-> DictSet(g.class_modules, class_name, module_path),
     module_contents |-> DictSet(g.module_contents, module_path, module_content),
     keys            |-> KeysAfterSet(g.keys, class_name)]

\* the order in which `for parent in direct_parents` yields a set's members
SetIter(S, ho) == SelectSeq(ho \o OtherNames, LAMBDA x : x \in S)

RECURSIVE is_subclass_at(_, _, _, _, _)
RECURSIVE any_is_subclass(_, _, _, _, _, _)

\* any(self.is_subclass(parent, potential_parent) for parent in direct_parents):
\* the generator is consumed in order, stops at the first True, and an
\* exception raised by a call leaves through any()
any_is_subclass(dp, ho, parents, i, potential_parent, depth) ==
    IF i > Len(parents) THEN "False"
    ELSE LET r == is_subclass_at(dp, ho, parents[i], potential_parent, depth)
         IN  IF r = "False"
             THEN any_is_subclass(dp, ho, parents, i + 1, potential_parent, depth)
             ELSE r

\* is_subclass without the test for a name that is no key of direct_parents:
\* the lookup raises KeyError
is_subclass_at_unguarded(dp, ho, potential_child, potential_parent, depth) ==
    IF depth > RecursionLimit THEN "RecursionError"
    ELSE IF potential_child = potential_parent THEN "True"
    ELSE IF potential_child \notin DOMAIN dp THEN "KeyError"
    ELSE IF potential_parent \in dp[potential_child] THEN "True"
    ELSE any_is_subclass(dp, ho, SetIter(dp[potential_child], ho), 1,
                         potential_parent, depth + 1)

\* is_subclass in a call stack that is `depth` calls deep
is_subclass_at(dp, ho, potential_child, potential_parent, depth) ==
    IF depth > RecursionLimit THEN "RecursionError"
    ELSE IF potential_child = potential_parent THEN "True"
    ELSE IF potential_child \notin DOMAIN dp THEN "False"
    ELSE IF potential_parent \in dp[potential_child] THEN "True"
    ELSE any_is_subclass(dp, ho, SetIter(dp[potential_child], ho), 1,
                         potential_parent, depth + 1)

is_subclass(dp, ho, potential_child, potential_parent) ==
    is_subclass_at(dp, ho, potential_child, potential_parent, 1)

RECURSIVE get_all_pairs_from(_, _, _, _, _)
\* the two nested loops of get_all_pairs, from the k-th (child, potential_parent)
\* combination on; the result is the list of pairs, or the exception that a
\* call of is_subclass raised
get_all_pairs_from(dp, keys, ho, k, pairs) ==
    LET n == Len(keys) IN
    IF k > n * n THEN [status |-> "ok", value |-> pairs]
    ELSE LET child            == keys[((k - 1) \div n) + 1]
             potential_parent == keys[((k - 1) % n) + 1]
             r == IF child # potential_parent
                  THEN is_subclass(dp, ho, child, potential_parent)
                  ELSE "False"
         IN  IF r = "RecursionError"
             THEN [status |-> "RecursionError", value |-> <<>>]
             ELSE get_all_pairs_from(dp, keys, ho, k + 1,
                     IF r = "True" THEN Append(pairs, <<potential_parent, child>>)
                     ELSE pairs)

get_all_pairs(g, ho) == get_all_pairs_from(g.direct_parents, g.keys, ho, 1, <<>>)

(***************************************************************************)
(* Operations on the graph as steps                                        *)
(***************************************************************************)
NoRet == [op |-> "none"]

\* add_class returns None
AddClass(class_name, parent_names, source_code, module_path, module_content) ==
    /\ phase = "build"
    /\ inheritance_graph' = add_class(inheritance_graph, class_name, parent_names,
                                      source_code, module_path, module_content)
    /\ ret' = [op |-> "add_class"]

\* what is_subclass can answer, over the orders in which sets may iterate
is_subclass_outcomes(dp, potential_child, potential_parent) ==
    {is_subclass(dp, ho, potential_child, potential_parent) : ho \in HashOrders}

get_all_pairs_outcomes(g) == {get_all_pairs(g, ho) : ho \in HashOrders}

IsSubclass(potential_child, potential_parent) ==
    /\ phase \in {"build", "query"}
    /\ phase' = "query"
    /\ \E value \in is_subclass_outcomes(inheritance_graph.direct_parents,
                                         potential_child, potential_parent) :
          ret' = [op |-> "is_subclass", potential_child |-> potential_child,
                  potential_parent |-> potential_parent, value |-> value]
    /\ UNCHANGED <<inheritance_graph, calls, codebase, todo, declared>>

GetAllPairs ==
    /\ phase \in {"build", "query"}
    /\ phase' = "query"
    /\ \E r \in get_all_pairs_outcomes(inheritance_graph) :
          ret' = [op |-> "get_all_pairs", status |-> r.status, value |-> r.value]
    /\ UNCHANGED <<inheritance_graph, calls, codebase, todo, declared>>

(***************************************************************************)
(* Spec: the graph and its queries.  The graph is built by add_class calls *)
(* with any class name and any list of parents (a name may be registered   *)
(* again), then queried by is_subclass and get_all_pairs.  The queries     *)
(* leave the graph as it is, so a graph that is extended after a query is  *)
(* the graph the same calls build without the query: the build comes       *)
(* first, as in the main program.                                          *)
(***************************************************************************)
Init ==
    /\ inheritance_graph = NewGraph
    /\ ret = NoRet
    /\ calls = <<>>
    /\ codebase = EmptyDict
    /\ todo = {}
    /\ declared = <<>>
    /\ phase = "build"

AddClassGraph ==
    \E class_name \in Names, parent_names \in ParentLists :
        /\ AddClass(class_name, parent_names, "s1", "m1.py", "t1")
        /\ UNCHANGED <<calls, codebase, todo, declared, phase>>

Query ==
    \E potential_child \in Names, potential_parent \in Names :
        IsSubclass(potential_child, potential_parent)

Next == AddClassGraph \/ Query \/ GetAllPairs

Spec == Init /\ [][Next]_vars

(***************************************************************************)
(* write_class_pairs: grouping the pairs by the modules of their classes,  *)
(* and what is written for each group                                      *)
(***************************************************************************)
\* sorted(classes) for a set of class names
Sorted(S) == SelectSeq(SortOrder, LAMBDA x : x \in S)

RECURSIVE group_pairs_from(_, _, _, _)
\* the loop that fills module_groups, from the i-th pair on; module_groups
\* is a dict, here the list of its items in insertion order
group_pairs_from(class_modules, pairs, i, module_groups) ==
    IF i > Len(pairs) THEN module_groups
    ELSE LET superclass   == pairs[i][1]
             subclass     == pairs[i][2]
             super_module == class_modules[superclass]
             sub_module   == class_modules[subclass]
             module_key   == <<super_module, sub_module>>
             known        == \E j \in DOMAIN module_groups : module_groups[j].key = module_key
             started      == IF known THEN module_groups
                             ELSE Append(module_groups, [key |-> module_key, pairs |-> <<>>])
         IN  group_pairs_from(class_modules, pairs, i + 1,
                 [j \in DOMAIN started |->
                     IF started[j].key = module_key
                     THEN [key |-> module_key,
                           pairs |-> Append(started[j].pairs, <<superclass, subclass>>)]
                     ELSE started[j]])

\* the groups when every key is given the same list object: each group
\* then holds all the pairs
group_pairs_shared_list(class_modules, pairs) ==
    LET module_groups == group_pairs_from(class_modules, pairs, 1, <<>>)
    IN  [j \in DOMAIN module_groups |-> [key |-> module_groups[j].key, pairs |-> pairs]]

\* the groups when a pair is put in front of its group's list
group_pairs_prepend(class_modules, pairs) ==
    LET module_groups == group_pairs_from(class_modules, pairs, 1, <<>>)
        Reverse(q)    == [i \in DOMAIN q |-> q[Len(q) + 1 - i]]
    IN  [j \in DOMAIN module_groups |->
            [key |-> module_groups[j].key, pairs |-> Reverse(module_groups[j].pairs)]]

group_pairs(class_modules, pairs) == group_pairs_from(class_modules, pairs, 1, <<>>)

get_classes_in_module(class_modules, module_path, as_super, pairs) ==
    Sorted({pairs[i][1] : i \in {j \in DOMAIN pairs :
                class_modules[pairs[j][1]] = module_path /\ as_super}}
           \cup
           {pairs[i][2] : i \in {j \in DOMAIN pairs :
                /\ ~(class_modules[pairs[j][1]] = module_path /\ as_super)
                /\ class_modules[pairs[j][2]] = module_path /\ ~as_super}})

\* only the superclasses count as involved
get_other_classes_supers_only(class_modules, module_path, pairs) ==
    Sorted({class_name \in DOMAIN class_modules :
                /\ class_modules[class_name] = module_path
                /\ class_name \notin {pairs[i][1] : i \in DOMAIN pairs}})

get_other_classes_in_module(class_modules, module_path, pairs) ==
    LET involved_classes == {pairs[i][1] : i \in DOMAIN pairs}
                            \cup {pairs[i][2] : i \in DOMAIN pairs}
    IN  Sorted({class_name \in DOMAIN class_modules :
                    /\ class_modules[class_name] = module_path
                    /\ class_name \notin involved_classes})

\* the name of a group's file in output_dir
output_path(first_pair) == first_pair[1] \o "." \o first_pair[2] \o ".txt"

\* what is written to the file of one group, in the order of the writes: the
\* relationships, the class lists of the first module, those of the second
\* module when it is another one, and the contents of the modules
group_report(g, group) ==
    LET super_module == group.key[1]
        sub_module   == group.key[2]
        pairs        == group.pairs
        cm           == g.class_modules
    IN  [relationships |-> pairs,
         sections |->
            <<[module         |-> super_module,
               has_subclasses |-> super_module = sub_module,
               superclasses   |-> get_classes_in_module(cm, super_module, TRUE, pairs),
               subclasses     |-> IF super_module = sub_module
                                  THEN get_classes_in_module(cm, super_module, FALSE, pairs)
                                  ELSE <<>>,
               other          |-> get_other_classes_in_module(cm, super_module, pairs)]>>
            \o (IF super_module # sub_module
                THEN <<[module         |-> sub_module,
                        has_subclasses |-> TRUE,
                        superclasses   |-> <<>>,
                        subclasses     |-> get_classes_in_module(cm, sub_module, FALSE, pairs),
                        other          |-> get_other_classes_in_module(cm, sub_module, pairs)]>>
                ELSE <<>>),
         contents |->
            <<g.module_contents[super_module]>>
            \o (IF super_module # sub_module
                THEN <<g.module_contents[sub_module]>> ELSE <<>>)]

RECURSIVE write_files_from(_, _, _, _)
\* the loop over module_groups.items(): each file is opened with 'w', so a
\* later group with the same path replaces what an earlier one wrote
write_files_from(g, module_groups, i, files) ==
    IF i > Len(module_groups) THEN files
    ELSE write_files_from(g, module_groups, i + 1,
             DictSet(files, output_path(module_groups[i].pairs[1]),
                     group_report(g, module_groups[i])))

\* write_class_pairs under one iteration order of the sets: the pairs, the
\* groups and the files of output_dir, or the exception get_all_pairs raised
\* before anything was written
write_class_pairs(g, ho) ==
    LET r == get_all_pairs(g, ho)
    IN  IF r.status # "ok"
        THEN [status |-> r.status, pairs |-> <<>>, module_groups |-> <<>>,
              files |-> EmptyDict]
        ELSE LET module_groups == group_pairs(g.class_modules, r.value)
             IN  [status |-> "ok", pairs |-> r.value, module_groups |-> module_groups,
                  files |-> write_files_from(g, module_groups, 1, EmptyDict)]

write_class_pairs_outcomes(g) == {write_class_pairs(g, ho) : ho \in HashOrders}

\* the main program calls write_class_pairs when process_codebase has returned
WriteClassPairs ==
    /\ phase \in {"build", "query"}
    /\ todo = {}
    /\ phase' = "query"
    /\ \E r \in write_class_pairs_outcomes(inheritance_graph) :
          ret' = [op |-> "write_class_pairs", status |-> r.status, pairs |-> r.pairs,
                  module_groups |-> r.module_groups, files |-> r.files]
    /\ UNCHANGED <<inheritance_graph, calls, codebase, todo, declared>>

(***************************************************************************)
(* SpecPlan: the graph built from classes of two modules, each with at     *)
(* most one parent, then written out by write_class_pairs.                 *)
(***************************************************************************)
Modules == {"m1.py", "m2.py"}

\* the text of a module
ModuleText(module_path) == "text of " \o module_path

SingleParentLists == {<<>>} \cup {<<n>> : n \in Names}

AddClassPlan ==
    \E class_name \in Names, parent_names \in SingleParentLists, module_path \in Modules :
        /\ AddClass(class_name, parent_names, "s1", module_path, ModuleText(module_path))
        /\ UNCHANGED <<calls, codebase, todo, declared, phase>>

NextPlan == AddClassPlan \/ WriteClassPairs

SpecPlan == Init /\ [][NextPlan]_vars

(***************************************************************************)
(* SpecReg: sequences of add_class calls whose arguments are recorded in   *)
(* calls.  A name is registered again with other parents, another source   *)
(* text and from another module, and a module with another text.           *)
(***************************************************************************)
RegNames == {"A", "B"}

\* the parent list and the source text of a class definition
RegDefinitions ==
    {[parent_names |-> <<>>, source_code |-> "s1"],
     [parent_names |-> <<"B", "B">>, source_code |-> "s2"]}

ModuleTexts == {"t1", "t2"}

Register ==
    /\ Len(calls) < MaxCalls
    /\ \E class_name \in RegNames, def \in RegDefinitions,
          module_path \in Modules, module_content \in ModuleTexts :
          /\ AddClass(class_name, def.parent_names, def.source_code,
                      module_path, module_content)
          /\ calls' = Append(calls,
                 [class_name |-> class_name, parent_names |-> def.parent_names,
                  source_code |-> def.source_code, module_path |-> module_path,
                  module_content |-> module_content])
    /\ UNCHANGED <<codebase, todo, declared, phase>>

NextReg == Register

SpecReg == Init /\ [][NextReg]_vars

(***************************************************************************)
(* ClassInfoExtractor: the syntax trees ast.parse builds, and the visit    *)
(* that registers their class definitions                                  *)
(***************************************************************************)
\* the nodes ast.parse builds: it sets the fields of the grammar, and no
\* link from a node to the node that contains it
Name(id) == [type |-> "Name", id |-> id]

Attribute(value, attr) == [type |-> "Attribute", value |-> value, attr |-> attr]

Call == [type |-> "Call"]

ClassDef(name, bases, body) ==
    [type |-> "ClassDef", name |-> name, bases |-> bases, body |-> body]

RECURSIVE _get_full_attr_name(_)
_get_full_attr_name(node) ==
    IF node.value.type = "Name" THEN node.value.id \o "." \o node.attr
    ELSE IF node.value.type = "Attribute"
         THEN _get_full_attr_name(node.value) \o "." \o node.attr
         ELSE node.attr

RECURSIVE _get_full_class_name_from(_, _)
\* the while loop of _get_full_class_name: hasattr(current, 'parent') is
\* whether the node has a field named parent
_get_full_class_name_from(current, full_name) ==
    IF "parent" \in DOMAIN current /\ current.parent.type = "ClassDef"
    THEN _get_full_class_name_from(current.parent, current.parent.name \o "." \o full_name)
    ELSE full_name

_get_full_class_name(node) == _get_full_class_name_from(node, node.name)

RECURSIVE base_names_from(_, _, _)
\* the loop over node.bases: a base that is neither a Name nor an Attribute
\* is left out
base_names_from(bases, i, base_names) ==
    IF i > Len(bases) THEN base_names
    ELSE base_names_from(bases, i + 1,
             IF bases[i].type = "Name" THEN Append(base_names, bases[i].id)
             ELSE IF bases[i].type = "Attribute"
                  THEN Append(base_names, _get_full_attr_name(bases[i]))
                  ELSE base_names)

\* astor.to_source(node), the text of the class definition
to_source(node) == "class " \o node.name

RECURSIVE visit_ClassDef(_, _, _, _)
RECURSIVE visit_statements(_, _, _, _, _)

\* the visit of the statements of a body, in order
visit_statements(g, body, i, current_module_path, current_module_content) ==
    IF i > Len(body) THEN g
    ELSE visit_statements(
             visit_ClassDef(g, body[i], current_module_path, current_module_content),
             body, i + 1, current_module_path, current_module_content)

\* the class is registered, then generic_visit visits what it contains
visit_ClassDef(g, node, current_module_path, current_module_content) ==
    visit_statements(
        add_class(g, _get_full_class_name(node), base_names_from(node.bases, 1, <<>>),
                  to_source(node), current_module_path, current_module_content),
        node.body, 1, current_module_path, current_module_content)

\* process_file: a file that does not parse raises inside the try block and
\* leaves the graph as it is
process_file(g, file_path, file) ==
    IF ~file.parses THEN g
    ELSE visit_statements(g, file.body, 1, file_path, file.source)

RECURSIVE ClassDefsOf(_, _)
\* history: the class definitions of a body in the order of the visit, each
\* with its dot-joined chain of enclosing class names followed by its own
\* name, and the name it is registered under
ClassDefsOf(body, enclosing) ==
    IF body = <<>> THEN <<>>
    ELSE LET node == body[1]
         IN  <<[qualified  |-> enclosing \o node.name,
                registered |-> _get_full_class_name(node)]>>
             \o ClassDefsOf(node.body, enclosing \o node.name \o ".")
             \o ClassDefsOf(Tail(body), enclosing)

(***************************************************************************)
(* SpecRun: the main program on a directory of two Python files and one    *)
(* other file.  os.walk yields the files in any order; each Python file is *)
(* processed, and write_class_pairs runs when all files were seen.         *)
(***************************************************************************)
PyFiles == {"m1.py", "m2.py"}

Files == PyFiles \cup {"notes.txt"}

\* filename.endswith('.py')
EndsWithPy(filename) == filename \in PyFiles

NestedBases ==
    {<<>>, <<Name("A")>>, <<Name("B")>>,
     <<Attribute(Name("A"), "B"), Attribute(Attribute(Name("A"), "B"), "C"),
       Attribute(Call, "C"), Call>>}

NestedDefs == {ClassDef("C", bases, <<>>) : bases \in NestedBases}

TopDefs ==
    {ClassDef(name, bases, body) :
        name \in {"A", "B"},
        bases \in {<<>>, <<Name("A")>>, <<Name("B")>>},
        body \in {<<>>} \cup {<<d>> : d \in NestedDefs}}

\* what a file holds: its text, whether ast.parse accepts it, and the
\* statements of the module when it does
FileValues(file_path) ==
    {[source |-> ModuleText(file_path), parses |-> FALSE, body |-> <<>>]}
    \cup {[source |-> ModuleText(file_path), parses |-> TRUE, body |-> body] :
             body \in {<<>>} \cup {<<d>> : d \in TopDefs}}

Codebases ==
    {[f \in Files |-> IF f = "m1.py" THEN v1 ELSE IF f = "m2.py" THEN v2
                      ELSE [source |-> ModuleText(f), parses |-> FALSE, body |-> <<>>]] :
        v1 \in FileValues("m1.py"), v2 \in FileValues("m2.py")}

InitRun ==
    /\ inheritance_graph = NewGraph
    /\ ret = NoRet
    /\ calls = <<>>
    /\ codebase \in Codebases
    /\ todo = Files
    /\ declared = <<>>
    /\ phase = "build"

\* one round of the loop of process_codebase over a Python file
ProcessFile ==
    /\ phase = "build"
    /\ \E filename \in todo :
          /\ EndsWithPy(filename)
          /\ todo' = todo \ {filename}
          /\ inheritance_graph' = process_file(inheritance_graph, filename, codebase[filename])
          /\ declared' = declared \o
                (IF codebase[filename].parses
                 THEN ClassDefsOf(codebase[filename].body, "") ELSE <<>>)
          /\ ret' = [op |-> "process_file"]
    /\ UNCHANGED <<calls, codebase, phase>>

\* one round of the loop over a file that is no Python file
SkipFile ==
    /\ phase = "build"
    /\ \E filename \in todo :
          /\ ~EndsWithPy(filename)
          /\ todo' = todo \ {filename}
    /\ UNCHANGED <<inheritance_graph, ret, calls, codebase, declared, phase>>

NextRun == ProcessFile \/ SkipFile \/ WriteClassPairs

SpecRun == InitRun /\ [][NextRun]_vars

(***************************************************************************)
(* Reachability in the direct-parent relation, defined without is_subclass *)
(***************************************************************************)
RECURSIVE Closure(_, _)
\* the names reachable from those of S in zero or more direct-parent steps
Closure(dp, S) ==
    LET T == S \cup UNION {dp[x] : x \in S \cap DOMAIN dp}
    IN  IF T = S THEN S ELSE Closure(dp, T)

\* candidate_ancestor equals name or is reachable from it
Reachable(dp, candidate_ancestor, name) == candidate_ancestor \in Closure(dp, {name})

\* reachable in one or more steps
ProperAncestors(dp, name) ==
    IF name \in DOMAIN dp THEN Closure(dp, dp[name]) ELSE {}

HasCycle(dp) == \E n \in DOMAIN dp : n \in ProperAncestors(dp, n)

Booleans == {"True", "False"}

\* the parents that are named but never registered
Undeclared(dp) == (UNION {dp[n] : n \in DOMAIN dp}) \ DOMAIN dp

\* the graph with every undeclared parent registered with no parents
WithUndeclaredAsRoots(dp) ==
    [n \in (DOMAIN dp) \cup Undeclared(dp) |-> IF n \in DOMAIN dp THEN dp[n] ELSE {}]

(***************************************************************************)
(* Claims about the queries                                                *)
(***************************************************************************)
\* C1: on every graph, cyclic ones included, a reachability query ends with
\* a boolean, which is false when the candidate ancestor is not reachable,
\* and get_all_pairs ends with a list of pairs.
C1_QueriesTerminate ==
    /\ ret.op = "is_subclass" =>
          /\ ret.value \in Booleans
          /\ ~Reachable(inheritance_graph.direct_parents,
                        ret.potential_parent, ret.potential_child)
                => ret.value = "False"
    /\ ret.op = "get_all_pairs" => ret.status = "ok"

\* C2: a query returns true if and only if the candidate ancestor equals the
\* name or is reachable from it through the direct-parent relation.
C2_TrueIffReachable ==
    ret.op = "is_subclass" =>
        (ret.value = "True" <=>
            Reachable(inheritance_graph.direct_parents,
                      ret.potential_parent, ret.potential_child))

\* C3: the list get_all_pairs returns has no pair (X, X), has no pair twice,
\* and holds (a, d) exactly when a and d are distinct registered names and
\* a is an ancestor of d (is_subclass(d, a) is true).
C3_AllPairsExact ==
    (ret.op = "get_all_pairs" /\ ret.status = "ok") =>
        LET dp == inheritance_graph.direct_parents
            ps == ret.value
        IN  /\ \A i \in DOMAIN ps : ps[i][1] # ps[i][2]
            /\ \A i, j \in DOMAIN ps : ps[i] = ps[j] => i = j
            /\ \A a, d \in Names :
                  (<<a, d>> \in Range(ps)) <=>
                      /\ a # d
                      /\ a \in DOMAIN dp
                      /\ d \in DOMAIN dp
                      /\ Reachable(dp, a, d)
            /\ \A a, d \in Names :
                  (<<a, d>> \in Range(ps)) <=>
                      /\ a # d /\ a \in DOMAIN dp /\ d \in DOMAIN dp
                      /\ \E ho \in HashOrders : is_subclass(dp, ho, d, a) = "True"

\* get_all_pairs has returned both pairs of a two-class cycle
C3_Witness ==
    /\ ret.op = "get_all_pairs"
    /\ ret.status = "ok"
    /\ <<"A", "B">> \in Range(ret.value)
    /\ <<"B", "A">> \in Range(ret.value)
    /\ "C" \in DOMAIN inheritance_graph.direct_parents

\* C4: a query about a name that was never registered returns false unless
\* the candidate ancestor is that name; a parent that was never declared is
\* treated as a class with no parents, and is never what makes is_subclass
\* or get_all_pairs fail (a failure needs a cycle of registered classes).
C4_UnknownNames ==
    LET dp == inheritance_graph.direct_parents
    IN  /\ (ret.op = "is_subclass" /\ ret.potential_child \notin DOMAIN dp) =>
              ret.value = IF ret.potential_parent = ret.potential_child
                          THEN "True" ELSE "False"
        /\ ret.op = "is_subclass" =>
              /\ ret.value \in
                    is_subclass_outcomes(WithUndeclaredAsRoots(dp),
                                         ret.potential_child, ret.potential_parent)
              /\ ret.value \notin Booleans => HasCycle(dp)
        /\ ret.op = "get_all_pairs" =>
              /\ ret.status # "ok" => HasCycle(dp)
              /\ [status |-> ret.status, value |-> ret.value] \in
                    {get_all_pairs_from(WithUndeclaredAsRoots(dp),
                                        inheritance_graph.keys, ho, 1, <<>>) :
                        ho \in HashOrders}

\* a query about the unregistered name C, which the registered class A names
\* as a parent, has returned false
C4_Witness ==
    /\ ret.op = "is_subclass"
    /\ ret.potential_child = "C"
    /\ ret.potential_parent = "A"
    /\ ret.value = "False"
    /\ "C" \notin DOMAIN inheritance_graph.direct_parents
    /\ "A" \in DOMAIN inheritance_graph.direct_parents
    /\ "C" \in inheritance_graph.direct_parents["A"]

(***************************************************************************)
(* Claims about the grouping and the planned reports                       *)
(***************************************************************************)
Written == ret.op = "write_class_pairs" /\ ret.status = "ok"

\* the pairs of a list whose ancestor and descendant are owned by the units
PairsOfUnits(pairs, ancestor_unit, descendant_unit) ==
    SelectSeq(pairs, LAMBDA pr :
        /\ inheritance_graph.class_modules[pr[1]] = ancestor_unit
        /\ inheritance_graph.class_modules[pr[2]] = descendant_unit)

\* C5: the group of a unit pair is exactly the subsequence of the pairs of
\* get_all_pairs whose ancestor and descendant those units own; so every
\* pair is in exactly one group, no group is empty, and the groups together
\* hold the pairs and nothing else.
C5_GroupingPartition ==
    Written =>
        LET groups == ret.module_groups
        IN  /\ \A i, j \in DOMAIN groups : groups[i].key = groups[j].key => i = j
            /\ \A i \in DOMAIN groups :
                  /\ groups[i].pairs # <<>>
                  /\ groups[i].pairs =
                        PairsOfUnits(ret.pairs, groups[i].key[1], groups[i].key[2])
            /\ \A ancestor_unit, descendant_unit \in Modules :
                  PairsOfUnits(ret.pairs, ancestor_unit, descendant_unit) # <<>>
                     => \E i \in DOMAIN groups :
                            groups[i].key = <<ancestor_unit, descendant_unit>>
            /\ \A k \in DOMAIN ret.pairs :
                  Cardinality({i \in DOMAIN groups :
                                  ret.pairs[k] \in Range(groups[i].pairs)}) = 1
            /\ UNION {Range(groups[i].pairs) : i \in DOMAIN groups} = Range(ret.pairs)

\* three pairs were grouped into two groups, one of them with two pairs
C5_Witness ==
    /\ Written
    /\ Len(ret.pairs) = 3
    /\ Len(ret.module_groups) = 2
    /\ \E i \in DOMAIN ret.module_groups : Len(ret.module_groups[i].pairs) = 2

\* the report planned for the i-th group
ReportOf(i) == ret.files[output_path(ret.module_groups[i].pairs[1])]

\* C6: in the report of a group, the 'other' list of each unit is exactly
\* the classes of the unit that are neither ancestor nor descendant in a
\* pair of the group, so it shares no name with the unit's superclass list
\* or subclass list; a class that is both in a same-unit group is in both
\* role lists.
C6_OtherDisjoint ==
    Written =>
        \A i \in DOMAIN ret.module_groups :
            LET group     == ret.module_groups[i]
                ancestors == {group.pairs[k][1] : k \in DOMAIN group.pairs}
                descs     == {group.pairs[k][2] : k \in DOMAIN group.pairs}
                report    == ReportOf(i)
            IN  /\ Len(report.sections) = IF group.key[1] = group.key[2] THEN 1 ELSE 2
                /\ \A k \in DOMAIN report.sections :
                      LET sec == report.sections[k]
                      IN  /\ sec.module = group.key[k]
                          /\ Range(sec.other) =
                                {n \in DOMAIN inheritance_graph.class_modules :
                                    /\ inheritance_graph.class_modules[n] = sec.module
                                    /\ n \notin ancestors \cup descs}
                          /\ Range(sec.other) \cap Range(sec.superclasses) = {}
                          /\ Range(sec.other) \cap Range(sec.subclasses) = {}
                /\ Range(report.sections[1].superclasses) = ancestors
                /\ Range(report.sections[Len(report.sections)].subclasses) = descs

\* a group of one unit whose report lists a class among the others
C6_Witness ==
    /\ Written
    /\ \E i \in DOMAIN ret.module_groups :
          LET report == ReportOf(i)
          IN  /\ report.sections[1].other # <<>>
              /\ report.sections[1].superclasses # <<>>
              /\ report.sections[1].subclasses # <<>>

\* C10: no two groups of a run start with the same pair, so the file named
\* after a group's first pair holds that group's report.
C10_FirstPairsDistinct ==
    Written =>
        /\ \A i, j \in DOMAIN ret.module_groups :
              ret.module_groups[i].pairs[1] = ret.module_groups[j].pairs[1] => i = j
        /\ \A i \in DOMAIN ret.module_groups :
              /\ output_path(ret.module_groups[i].pairs[1]) \in DOMAIN ret.files
              /\ ReportOf(i) = group_report(inheritance_graph, ret.module_groups[i])

\* two groups were written whose first pairs have the same ancestor
C10_Witness ==
    /\ Written
    /\ \E i, j \in DOMAIN ret.module_groups :
          /\ i # j
          /\ ret.module_groups[i].pairs[1][1] = ret.module_groups[j].pairs[1][1]

(***************************************************************************)
(* Claims about registration                                               *)
(***************************************************************************)
\* the index of the most recent recorded call that satisfies P
LastCall(P(_)) ==
    CHOOSE i \in DOMAIN calls : P(calls[i]) /\ \A j \in DOMAIN calls : P(calls[j]) => j <= i

\* C8: after any sequence of add_class calls, the parents, the source text
\* and the module of every registered name are those of the most recent
\* call for that name, the text of every module is that of the most recent
\* call that named the module, and the last call made once more would
\* leave the graph as it is.
C8_LastWriteWins ==
    LET g == inheritance_graph
        called  == {calls[i].class_name : i \in DOMAIN calls}
        modules == {calls[i].module_path : i \in DOMAIN calls}
    IN  /\ DOMAIN g.direct_parents = called
        /\ DOMAIN g.class_source = called
        /\ DOMAIN g.class_modules = called
        /\ DOMAIN g.module_contents = modules
        /\ \A n \in called :
              LET c == calls[LastCall(LAMBDA x : x.class_name = n)]
              IN  /\ g.direct_parents[n] = {c.parent_names[k] : k \in DOMAIN c.parent_names}
                  /\ g.class_source[n] = c.source_code
                  /\ g.class_modules[n] = c.module_path
        /\ \A m \in modules :
              g.module_contents[m] =
                  calls[LastCall(LAMBDA x : x.module_path = m)].module_content
        /\ calls # <<>> =>
              LET c == calls[Len(calls)]
              IN  add_class(g, c.class_name, c.parent_names, c.source_code,
                            c.module_path, c.module_content) = g

\* a name was registered from one module and then again from the other
\* module with other parents and another source text, and a module was
\* named with one text and then with another
C8_Witness ==
    /\ \E i, j \in DOMAIN calls :
          /\ i < j
          /\ calls[i].class_name = calls[j].class_name
          /\ calls[i].module_path # calls[j].module_path
          /\ calls[i].parent_names # calls[j].parent_names
          /\ calls[i].source_code # calls[j].source_code
    /\ \E i, j \in DOMAIN calls :
          /\ i < j
          /\ calls[i].module_path = calls[j].module_path
          /\ calls[i].module_content # calls[j].module_content

(***************************************************************************)
(* Claims about the graph builder and the order of the files               *)
(***************************************************************************)
\* C9: every class definition is registered under its qualified name, the
\* dot-joined chain of the names of the classes that enclose it followed by
\* its own name (Inner inside Outer as Outer.Inner).
C9_RegisteredUnderQualifiedName ==
    \A i \in DOMAIN declared : declared[i].registered = declared[i].qualified

RECURSIVE process_files_in_order(_, _)
\* the graph process_codebase builds when os.walk yields the files in order
process_files_in_order(g, order) ==
    IF order = <<>> THEN g
    ELSE process_files_in_order(
             IF EndsWithPy(order[1]) THEN process_file(g, order[1], codebase[order[1]])
             ELSE g,
             Tail(order))

\* the qualified names of the class definitions of the Python files
QualifiedNames(filename) ==
    IF codebase[filename].parses
    THEN ClassDefsOf(codebase[filename].body, "") ELSE <<>>

\* no two class definitions of the codebase have the same qualified name
DistinctQualifiedNames ==
    /\ \A f \in PyFiles : \A i, j \in DOMAIN QualifiedNames(f) :
          QualifiedNames(f)[i].qualified = QualifiedNames(f)[j].qualified => i = j
    /\ \A f1, f2 \in PyFiles : f1 # f2 =>
          {QualifiedNames(f1)[i].qualified : i \in DOMAIN QualifiedNames(f1)}
          \cap {QualifiedNames(f2)[i].qualified : i \in DOMAIN QualifiedNames(f2)} = {}

\* no two class definitions of the codebase are registered under one name
DistinctRegisteredNames ==
    /\ \A f \in PyFiles : \A i, j \in DOMAIN QualifiedNames(f) :
          QualifiedNames(f)[i].registered = QualifiedNames(f)[j].registered => i = j
    /\ \A f1, f2 \in PyFiles : f1 # f2 =>
          {QualifiedNames(f1)[i].registered : i \in DOMAIN QualifiedNames(f1)}
          \cap {QualifiedNames(f2)[i].registered : i \in DOMAIN QualifiedNames(f2)} = {}

OrdersOfFiles == {<<"m1.py", "m2.py", "notes.txt">>, <<"m2.py", "notes.txt", "m1.py">>}

\* what write_class_pairs produces after the files were processed in order
ReportsInOrder(order) ==
    write_class_pairs_outcomes(process_files_in_order(NewGraph, order))

SameReports(r) ==
    /\ r.status = "ok"
    /\ {r.module_groups[i] : i \in DOMAIN r.module_groups}
          = {ret.module_groups[i] : i \in DOMAIN ret.module_groups}
    /\ r.files = ret.files

\* C7: when the class definitions have pairwise distinct qualified names and
\* the parent relation is acyclic, the groups, the pairs in each group and
\* the reports are the same in whatever order the files are processed.
C7_OrderIndependent ==
    (/\ Written
     /\ DistinctQualifiedNames
     /\ ~HasCycle(inheritance_graph.direct_parents)
     /\ \A order \in OrdersOfFiles :
           ~HasCycle(process_files_in_order(NewGraph, order).direct_parents))
    => \A order \in OrdersOfFiles : \A r \in ReportsInOrder(order) : SameReports(r)

\* the same with class definitions that are registered under distinct names
OrderIndependentForDistinctRegisteredNames ==
    (/\ Written
     /\ DistinctRegisteredNames
     /\ ~HasCycle(inheritance_graph.direct_parents))
    => \A order \in OrdersOfFiles : \A r \in ReportsInOrder(order) : SameReports(r)

====
